---- MODULE Spec2Model ----
(***************************************************************************)
(* Model of the persisted cart store of src/store/store.ts (useCartStore): *)
(* a zustand store wrapped in the persist middleware under the storage     *)
(* key "Cart-store".  The state is the in-memory items array and the       *)
(* records kept in localStorage; the operations are the store's three      *)
(* mutations, its three queries and a restart of the page (a new store     *)
(* instance that rehydrates from the storage key).                         *)
(*                                                                         *)
(* Spec            the cart store alone                                    *)
(* SpecSideBySide  the cart store and the basket store (useBasketStore)    *)
(*                 receiving the same calls                                *)
(* SpecTwoStores   the two stores used independently of each other         *)
(* SpecConsumers   several consumers requesting addItem on one instance    *)
(* SpecWebhook     the payment webhook's POST handler                      *)
(***************************************************************************)
EXTENDS Integers, Sequences, FiniteSets, TLC

(* ---------------------------------------------------------------------- *)
(* Bounds of the model                                                     *)
(* ---------------------------------------------------------------------- *)

\* largest quantity an entry is driven to; addItem is not offered beyond it
MaxQty == 2

\* product identifiers the UI offers
Ids == {"a", "b", "c"}

(* ---------------------------------------------------------------------- *)
(* Values                                                                  *)
(* ---------------------------------------------------------------------- *)

\* a JavaScript value of type number | null | undefined (Product.price)
Undefined == [tag |-> "undefined", val |-> 0]
Null == [tag |-> "null", val |-> 0]
Num(n) == [tag |-> "number", val |-> n]

\* prices the catalogue supplies: missing, null, and two amounts
Prices == {Undefined, Null, Num(5), Num(10)}

\* Product, as far as the store touches it: _id and the optional price
Product == [_id : Ids, price : Prices]

\* CartItem
CartItem(product, quantity) == [product |-> product, quantity |-> quantity]

\* a ?? b of JavaScript on a price: b when a is null or undefined
Coalesce(a, b) == IF a.tag \in {"undefined", "null"} THEN b ELSE a.val

\* Array.prototype.find on the product id: index of the first entry whose
\* product._id is id, 0 when there is none (find returns undefined)
find(its, id) ==
  IF \E i \in 1..Len(its) : its[i].product._id = id
    THEN CHOOSE i \in 1..Len(its) :
           /\ its[i].product._id = id
           /\ \A j \in 1..(i - 1) : its[j].product._id # id
    ELSE 0

(* ---------------------------------------------------------------------- *)
(* The store's state-update functions                                      *)
(* ---------------------------------------------------------------------- *)

\* addItem without the lookup: every call appends
addItemAlwaysAppend(its, product) == Append(its, CartItem(product, 1))

\* addItem that puts a new entry first: [{product, quantity: 1}, ...items]
addItemPrepend(its, product) ==
  LET existingItem == find(its, product._id)
  IN IF existingItem # 0
       THEN [i \in 1..Len(its) |->
               IF its[i].product._id = product._id
                 THEN [its[i] EXCEPT !.quantity = @ + 1]
                 ELSE its[i]]
       ELSE <<CartItem(product, 1)>> \o its

\* addItem that filters the entry out and appends it again, incremented
addItemMoveToEnd(its, product) ==
  LET existingItem == find(its, product._id)
  IN IF existingItem # 0
       THEN SubSeq(its, 1, existingItem - 1)
              \o SubSeq(its, existingItem + 1, Len(its))
              \o <<[its[existingItem] EXCEPT !.quantity = @ + 1]>>
       ELSE Append(its, CartItem(product, 1))

\* addItem that spreads the new product over the entry it increments:
\* {...item, product, quantity: item.quantity + 1}
addItemReplacesSnapshot(its, product) ==
  LET existingItem == find(its, product._id)
  IN IF existingItem # 0
       THEN [i \in 1..Len(its) |->
               IF its[i].product._id = product._id
                 THEN CartItem(product, its[i].quantity + 1)
                 ELSE its[i]]
       ELSE Append(its, CartItem(product, 1))

\* addItem: the function handed to set()
addItem(its, product) ==
  LET existingItem == find(its, product._id)
  IN IF existingItem # 0
       THEN [i \in 1..Len(its) |->
               IF its[i].product._id = product._id
                 THEN [its[i] EXCEPT !.quantity = @ + 1]
                 ELSE its[i]]
       ELSE Append(its, CartItem(product, 1))

\* the reducer with the test quantity > 0: the last unit is decremented too
removeStepKeepsZero(acc, item, productId) ==
  IF item.product._id = productId
    THEN IF item.quantity > 0
           THEN Append(acc, [item EXCEPT !.quantity = @ - 1])
           ELSE acc
    ELSE Append(acc, item)

\* the reducer as a filter: the matching entry is dropped whatever it holds
removeStepDropsEntry(acc, item, productId) ==
  IF item.product._id = productId THEN acc ELSE Append(acc, item)

\* the reducer with acc.unshift(item) for the entries it keeps
removeStepUnshift(acc, item, productId) ==
  IF item.product._id = productId
    THEN IF item.quantity > 1
           THEN Append(acc, [item EXCEPT !.quantity = @ - 1])
           ELSE acc
    ELSE <<item>> \o acc

\* one step of removeItem's reducer: (acc, item) => acc
removeStep(acc, item, productId) ==
  IF item.product._id = productId
    THEN IF item.quantity > 1
           THEN Append(acc, [item EXCEPT !.quantity = @ - 1])
           ELSE acc
    ELSE Append(acc, item)

\* items.reduce(removeStep, []) over the first n entries
RECURSIVE removeReduce(_, _, _)
removeReduce(its, n, productId) ==
  IF n = 0 THEN <<>>
  ELSE removeStep(removeReduce(its, n - 1, productId), its[n], productId)

\* removeItem written with findIndex and splice: splice(-1, 1) on an absent
\* id takes the last entry away
removeItemSplice(its, productId) ==
  IF find(its, productId) = 0
    THEN SubSeq(its, 1, Len(its) - 1)
    ELSE removeReduce(its, Len(its), productId)

\* removeItem: the function handed to set()
removeItem(its, productId) == removeReduce(its, Len(its), productId)

\* clearCart: the object handed to set()
clearCart == <<>>

\* the reduction without the quantity factor: total + (price ?? 0)
RECURSIVE totalReduceNoQuantity(_, _)
totalReduceNoQuantity(its, n) ==
  IF n = 0 THEN 0
  ELSE totalReduceNoQuantity(its, n - 1) + Coalesce(its[n].product.price, 0)

\* items.reduce((total, item) => total + (price ?? 0) * quantity, 0)
\* over the first n entries
RECURSIVE totalReduce(_, _)
totalReduce(its, n) ==
  IF n = 0 THEN 0
  ELSE totalReduce(its, n - 1) + Coalesce(its[n].product.price, 0) * its[n].quantity

\* getTotalPrice
getTotalPrice(its) == totalReduce(its, Len(its))

\* getItemCount as the number of matching entries: filter(...).length
getItemCountEntries(its, productId) ==
  Cardinality({i \in 1..Len(its) : its[i].product._id = productId})

\* getItemCount
getItemCount(its, productId) ==
  LET item == find(its, productId)
  IN IF item # 0 THEN its[item].quantity ELSE 0

\* getGroupedItems
getGroupedItems(its) == its

(* ---------------------------------------------------------------------- *)
(* The basket store's state-update functions (useBasketStore)              *)
(* ---------------------------------------------------------------------- *)

\* basket addItem: the function handed to set()
basketAddItem(its, product) ==
  LET existingItem == find(its, product._id)
  IN IF existingItem # 0
       THEN [i \in 1..Len(its) |->
               IF its[i].product._id = product._id
                 THEN [its[i] EXCEPT !.quantity = @ + 1]
                 ELSE its[i]]
       ELSE Append(its, CartItem(product, 1))

\* the basket's reducer with the test quantity >= 1
basketRemoveStepKeepsZero(acc, item, productId) ==
  IF item.product._id = productId
    THEN IF item.quantity >= 1
           THEN Append(acc, [item EXCEPT !.quantity = @ - 1])
           ELSE acc
    ELSE Append(acc, item)

\* one step of the basket's removeItem reducer
basketRemoveStep(acc, item, productId) ==
  IF item.product._id = productId
    THEN IF item.quantity > 1
           THEN Append(acc, [item EXCEPT !.quantity = @ - 1])
           ELSE acc
    ELSE Append(acc, item)

\* items.reduce(basketRemoveStep, []) over the first n entries
RECURSIVE basketRemoveReduce(_, _, _)
basketRemoveReduce(its, n, productId) ==
  IF n = 0 THEN <<>>
  ELSE basketRemoveStep(basketRemoveReduce(its, n - 1, productId),
                        its[n], productId)

\* basket removeItem: the function handed to set()
basketRemoveItem(its, productId) == basketRemoveReduce(its, Len(its), productId)

\* clearBasket: the object handed to set()
clearBasket == <<>>

\* the basket's total reduction over the first n entries
RECURSIVE basketTotalReduce(_, _)
basketTotalReduce(its, n) ==
  IF n = 0 THEN 0
  ELSE basketTotalReduce(its, n - 1)
         + Coalesce(its[n].product.price, 0) * its[n].quantity

\* basket getTotalPrice
basketGetTotalPrice(its) == basketTotalReduce(its, Len(its))

\* basket getItemCount
basketGetItemCount(its, productId) ==
  LET item == find(its, productId)
  IN IF item # 0 THEN its[item].quantity ELSE 0

\* basket getGroupedItems
basketGetGroupedItems(its) == its

(* ---------------------------------------------------------------------- *)
(* persist middleware: the record under the storage key                    *)
(* ---------------------------------------------------------------------- *)

\* persist option name of the cart store: the key of its record
CartName == "Cart-store"

\* a basket store persisted under the cart's key
BasketNameOfCart == "Cart-store"

\* persist option name of the basket store
BasketName == "Basket-store"

\* localStorage.getItem(name) of a key never written
NoRecord == [present |-> FALSE]

\* JSON.stringify of a product: a key whose value is undefined is omitted,
\* null and numbers are kept
stringifyProduct(p) ==
  IF p.price.tag = "undefined"
    THEN [_id |-> p._id]
    ELSE [_id |-> p._id, price |-> p.price]

\* a parse that fills the omitted key in: price: j.price ?? null
parseProductNull(j) ==
  [_id |-> j._id,
   price |-> IF "price" \in DOMAIN j THEN j.price ELSE Null]

\* JSON.parse of a product: an omitted key reads back as undefined
parseProduct(j) ==
  [_id |-> j._id,
   price |-> IF "price" \in DOMAIN j THEN j.price ELSE Undefined]

\* the record persist writes: {state: {items}, version: 0}; the functions of
\* the state do not survive JSON.stringify
setItem(its) ==
  [present |-> TRUE,
   state |-> [items |-> [i \in 1..Len(its) |->
                           [product |-> stringifyProduct(its[i].product),
                            quantity |-> its[i].quantity]]],
   version |-> 0]

\* localStorage after the middleware has written its under the key name
Write(st, name, its) == [st EXCEPT ![name] = setItem(its)]

\* rehydration: the stored state merged over the initial state (items: [])
hydrate(rec) ==
  IF rec.present
    THEN [i \in 1..Len(rec.state.items) |->
            CartItem(parseProduct(rec.state.items[i].product),
                     rec.state.items[i].quantity)]
    ELSE <<>>

(* ---------------------------------------------------------------------- *)
(* State                                                                   *)
(* ---------------------------------------------------------------------- *)

VARIABLES
  items,     \* CartState.items of the live store instance
  storage,   \* localStorage: storage key |-> the record under it
  last,      \* the operation that ran last: [op, args]
  before,    \* items as they were when that operation started
  ret,       \* what that operation returned (queries), Undefined otherwise
  grouped,   \* the last two getGroupedItems() results since the last mutation
  scenario,  \* steps of the end-to-end scenario completed from an empty cart
  pair,      \* an addItem(P) and the removeItem(P._id) that directly follows it
  bItems,    \* BasketState.items of the live basket store instance
  bRet,      \* what the basket's last query returned, Undefined otherwise
  pending,   \* addItem calls the consumers have requested, not yet run
  issued,    \* consumer |-> product id |-> addItem calls it has requested
  secret,    \* process.env.STRIPE_WEBHOOK_SECRET
  request,   \* the request the webhook handled last
  response,  \* what POST returned for it
  log,       \* lines written by console.log
  verified,  \* signatures the webhook has verified
  events     \* events the webhook has handled

cartVars == <<items, storage, last, before, ret, grouped, scenario, pair>>

basketVars == <<bItems, bRet>>

clickVars == <<pending, issued>>

hookVars == <<secret, request, response, log, verified, events>>

vars == <<cartVars, basketVars, clickVars, hookVars>>

\* the stores' consumers are idle
InitNoClicks ==
  /\ pending = <<>>
  /\ issued = <<>>

\* no request has reached the webhook
NoRequest == [received |-> FALSE]
NoResponse == [returned |-> FALSE]

InitNoHook ==
  /\ secret = <<>>
  /\ request = NoRequest
  /\ response = NoResponse
  /\ log = <<>>
  /\ verified = {}
  /\ events = <<>>

\* the end-to-end scenario of the specification, run from an empty cart
Scenario ==
  << [_id |-> "a", price |-> Num(10)],
     [_id |-> "b", price |-> Num(5)],
     [_id |-> "a", price |-> Num(10)] >>

\* progress of the scenario after a mutation: the next scenario call moves
\* it on, any other mutation leaves it (-1) or, emptying the cart, restarts it
ScenarioAfter(op, args, next) ==
  IF scenario \in 0..(Len(Scenario) - 1) /\ op = "addItem"
       /\ args[1] = Scenario[scenario + 1]
    THEN scenario + 1
    ELSE IF next = <<>> THEN 0 ELSE -1

\* no addItem is waiting for its removeItem
NoPair == [tag |-> "none"]

\* the pair after a mutation: addItem(P) opens it, the removeItem(P._id)
\* that follows at once closes it, anything else drops it
PairAfter(op, args) ==
  IF op = "addItem"
    THEN [tag |-> "added", product |-> args[1], start |-> items]
    ELSE IF op = "removeItem" /\ pair.tag = "added"
              /\ pair.product._id = args[1]
      THEN [tag |-> "undone", product |-> pair.product, start |-> pair.start]
      ELSE NoPair

\* the store right after creation in a browser that has never stored a cart;
\* depending on the middleware version hydration of an absent record either
\* leaves the key unwritten or writes the initial state
InitCart ==
  /\ items = <<>>
  /\ storage \in [{CartName} -> {NoRecord, setItem(<<>>)}]
  /\ last = [op |-> "create", args |-> <<>>]
  /\ before = <<>>
  /\ ret = Undefined
  /\ grouped = <<>>
  /\ scenario = 0
  /\ pair = NoPair

\* the basket store is not in use
InitNoBasket ==
  /\ bItems = <<>>
  /\ bRet = Undefined

Init == InitCart /\ InitNoBasket /\ InitNoClicks /\ InitNoHook

\* a mutation whose record is written before set() has replaced items
MutateWritesStale(op, args, next) ==
  /\ items' = next
  /\ storage' = [storage EXCEPT ![CartName] = setItem(items)]
  /\ last' = [op |-> op, args |-> args]
  /\ before' = items
  /\ ret' = Undefined
  /\ grouped' = <<>>
  /\ scenario' = ScenarioAfter(op, args, next)
  /\ pair' = PairAfter(op, args)

\* set(next) on the cart store: items are replaced
CartSet(op, args, next) ==
  /\ items' = next
  /\ last' = [op |-> op, args |-> args]
  /\ before' = items
  /\ ret' = Undefined
  /\ grouped' = <<>>
  /\ scenario' = ScenarioAfter(op, args, next)
  /\ pair' = PairAfter(op, args)

\* a mutation: set(next) replaces items, then the middleware writes the record
Mutate(op, args, next) ==
  /\ items' = next
  /\ storage' = Write(storage, CartName, next)
  /\ last' = [op |-> op, args |-> args]
  /\ before' = items
  /\ ret' = Undefined
  /\ grouped' = <<>>
  /\ scenario' = ScenarioAfter(op, args, next)
  /\ pair' = PairAfter(op, args)

\* a query that goes through set(): the middleware writes the record
QueryThroughSet(op, args, value) ==
  /\ ret' = value
  /\ last' = [op |-> op, args |-> args]
  /\ before' = items
  /\ grouped' = IF op = "getGroupedItems"
                  THEN IF grouped = <<>>
                         THEN <<value>>
                         ELSE <<grouped[Len(grouped)], value>>
                  ELSE grouped
  /\ pair' = NoPair
  /\ storage' = [storage EXCEPT ![CartName] = setItem(items)]
  /\ UNCHANGED <<items, scenario>>

\* a query: reads get().items and returns
Query(op, args, value) ==
  /\ ret' = value
  /\ last' = [op |-> op, args |-> args]
  /\ before' = items
  /\ grouped' = IF op = "getGroupedItems"
                  THEN IF grouped = <<>>
                         THEN <<value>>
                         ELSE <<grouped[Len(grouped)], value>>
                  ELSE grouped
  /\ pair' = NoPair
  /\ UNCHANGED <<items, storage, scenario>>

AddItem ==
  \E product \in Product :
    /\ getItemCount(items, product._id) < MaxQty
    /\ Mutate("addItem", <<product>>, addItem(items, product))

RemoveItem ==
  \E productId \in Ids :
    Mutate("removeItem", <<productId>>, removeItem(items, productId))

\* clearCart that drops one entry only: set({items: items.slice(1)})
ClearCartDropsFirst ==
  Mutate("clearCart", <<>>, SubSeq(items, 2, Len(items)))

ClearCart == Mutate("clearCart", <<>>, clearCart)

GetTotalPrice == Query("getTotalPrice", <<>>, getTotalPrice(items))

GetItemCount ==
  \E productId \in Ids :
    Query("getItemCount", <<productId>>, getItemCount(items, productId))

GetGroupedItems == Query("getGroupedItems", <<>>, getGroupedItems(items))

\* the page is reloaded: a new store instance starts from items: [] and
\* rehydrates from the storage key
Restart ==
  /\ items' = hydrate(storage[CartName])
  /\ storage' \in {storage,
                   [storage EXCEPT ![CartName] = setItem(hydrate(storage[CartName]))]}
  /\ last' = [op |-> "restart", args |-> <<>>]
  /\ before' = items
  /\ ret' = Undefined
  /\ grouped' = <<>>
  /\ scenario' = IF hydrate(storage[CartName]) = <<>> THEN 0 ELSE -1
  /\ pair' = NoPair

Next ==
  \/ AddItem /\ UNCHANGED <<basketVars, clickVars, hookVars>>
  \/ RemoveItem /\ UNCHANGED <<basketVars, clickVars, hookVars>>
  \/ ClearCart /\ UNCHANGED <<basketVars, clickVars, hookVars>>
  \/ GetTotalPrice /\ UNCHANGED <<basketVars, clickVars, hookVars>>
  \/ GetItemCount /\ UNCHANGED <<basketVars, clickVars, hookVars>>
  \/ GetGroupedItems /\ UNCHANGED <<basketVars, clickVars, hookVars>>
  \/ Restart /\ UNCHANGED <<basketVars, clickVars, hookVars>>

Spec == Init /\ [][Next]_vars

(* ---------------------------------------------------------------------- *)
(* The cart store and the basket store side by side                        *)
(* ---------------------------------------------------------------------- *)

\* both stores right after creation in a browser that has stored neither
InitStores ==
  /\ items = <<>>
  /\ storage \in [{CartName, BasketName} -> {NoRecord, setItem(<<>>)}]
  /\ last = [op |-> "create", args |-> <<>>]
  /\ before = <<>>
  /\ ret = Undefined
  /\ grouped = <<>>
  /\ scenario = 0
  /\ pair = NoPair
  /\ bItems = <<>>
  /\ bRet = Undefined
  /\ InitNoClicks
  /\ InitNoHook

\* the same mutation on both stores: the cart's set() and write, then the
\* basket's
BothMutate(op, args, next, bnext) ==
  /\ CartSet(op, args, next)
  /\ bItems' = bnext
  /\ bRet' = Undefined
  /\ storage' = Write(Write(storage, CartName, next), BasketName, bnext)

\* the same query on both stores
BothQuery(op, args, value, bvalue) ==
  /\ Query(op, args, value)
  /\ bRet' = bvalue
  /\ UNCHANGED bItems

BothAddItem ==
  \E product \in Product :
    /\ getItemCount(items, product._id) < MaxQty
    /\ BothMutate("addItem", <<product>>,
                  addItem(items, product), basketAddItem(bItems, product))

BothRemoveItem ==
  \E productId \in Ids :
    BothMutate("removeItem", <<productId>>,
               removeItem(items, productId), basketRemoveItem(bItems, productId))

BothClear == BothMutate("clearCart", <<>>, clearCart, clearBasket)

BothGetTotalPrice ==
  BothQuery("getTotalPrice", <<>>,
            getTotalPrice(items), basketGetTotalPrice(bItems))

BothGetItemCount ==
  \E productId \in Ids :
    BothQuery("getItemCount", <<productId>>,
              getItemCount(items, productId),
              basketGetItemCount(bItems, productId))

BothGetGroupedItems ==
  BothQuery("getGroupedItems", <<>>,
            getGroupedItems(items), basketGetGroupedItems(bItems))

NextSideBySide ==
  \/ BothAddItem /\ UNCHANGED <<clickVars, hookVars>>
  \/ BothRemoveItem /\ UNCHANGED <<clickVars, hookVars>>
  \/ BothClear /\ UNCHANGED <<clickVars, hookVars>>
  \/ BothGetTotalPrice /\ UNCHANGED <<clickVars, hookVars>>
  \/ BothGetItemCount /\ UNCHANGED <<clickVars, hookVars>>
  \/ BothGetGroupedItems /\ UNCHANGED <<clickVars, hookVars>>

SpecSideBySide == InitStores /\ [][NextSideBySide]_vars

(* ---------------------------------------------------------------------- *)
(* The two stores used independently of each other                         *)
(* ---------------------------------------------------------------------- *)

\* the products offered while both stores are in use
SharedIds == {"a", "b"}
SharedProduct ==
  {[_id |-> "a", price |-> Undefined], [_id |-> "b", price |-> Num(5)]}

\* a mutation of the basket store: set(next), then the write under its key
BasketMutate(op, args, next) ==
  /\ bItems' = next
  /\ storage' = Write(storage, BasketName, next)
  /\ last' = [op |-> op, args |-> args]
  /\ before' = bItems
  /\ bRet' = Undefined
  /\ UNCHANGED <<items, ret, grouped, scenario, pair>>

\* a query of the basket store
BasketQuery(op, args, value) ==
  /\ bRet' = value
  /\ last' = [op |-> op, args |-> args]
  /\ before' = bItems
  /\ UNCHANGED <<items, storage, ret, grouped, scenario, pair, bItems>>

BasketAddItem ==
  \E product \in SharedProduct :
    /\ basketGetItemCount(bItems, product._id) < MaxQty
    /\ BasketMutate("basket.addItem", <<product>>,
                    basketAddItem(bItems, product))

BasketRemoveItem ==
  \E productId \in SharedIds :
    BasketMutate("basket.removeItem", <<productId>>,
                 basketRemoveItem(bItems, productId))

ClearBasket == BasketMutate("basket.clearBasket", <<>>, clearBasket)

BasketGetTotalPrice ==
  BasketQuery("basket.getTotalPrice", <<>>, basketGetTotalPrice(bItems))

BasketGetItemCount ==
  \E productId \in SharedIds :
    BasketQuery("basket.getItemCount", <<productId>>,
                basketGetItemCount(bItems, productId))

BasketGetGroupedItems ==
  BasketQuery("basket.getGroupedItems", <<>>, basketGetGroupedItems(bItems))

\* a new basket store instance rehydrates from its storage key
BasketRestart ==
  /\ bItems' = hydrate(storage[BasketName])
  /\ storage' \in {storage,
                   Write(storage, BasketName, hydrate(storage[BasketName]))}
  /\ last' = [op |-> "basket.restart", args |-> <<>>]
  /\ before' = bItems
  /\ bRet' = Undefined
  /\ UNCHANGED <<items, ret, grouped, scenario, pair>>

\* the cart's addItem and removeItem on the shared products
SharedAddItem ==
  \E product \in SharedProduct :
    /\ getItemCount(items, product._id) < MaxQty
    /\ Mutate("addItem", <<product>>, addItem(items, product))

SharedRemoveItem ==
  \E productId \in SharedIds :
    Mutate("removeItem", <<productId>>, removeItem(items, productId))

SharedGetItemCount ==
  \E productId \in SharedIds :
    Query("getItemCount", <<productId>>, getItemCount(items, productId))

NextTwoStores ==
  \/ SharedAddItem /\ UNCHANGED <<basketVars, clickVars, hookVars>>
  \/ SharedRemoveItem /\ UNCHANGED <<basketVars, clickVars, hookVars>>
  \/ ClearCart /\ UNCHANGED <<basketVars, clickVars, hookVars>>
  \/ GetTotalPrice /\ UNCHANGED <<basketVars, clickVars, hookVars>>
  \/ SharedGetItemCount /\ UNCHANGED <<basketVars, clickVars, hookVars>>
  \/ GetGroupedItems /\ UNCHANGED <<basketVars, clickVars, hookVars>>
  \/ Restart /\ UNCHANGED <<basketVars, clickVars, hookVars>>
  \/ BasketAddItem /\ UNCHANGED <<clickVars, hookVars>>
  \/ BasketRemoveItem /\ UNCHANGED <<clickVars, hookVars>>
  \/ ClearBasket /\ UNCHANGED <<clickVars, hookVars>>
  \/ BasketGetTotalPrice /\ UNCHANGED <<clickVars, hookVars>>
  \/ BasketGetItemCount /\ UNCHANGED <<clickVars, hookVars>>
  \/ BasketGetGroupedItems /\ UNCHANGED <<clickVars, hookVars>>
  \/ BasketRestart /\ UNCHANGED <<clickVars, hookVars>>

SpecTwoStores == InitStores /\ [][NextTwoStores]_vars

(* ---------------------------------------------------------------------- *)
(* Several consumers of one cart store instance                            *)
(* ---------------------------------------------------------------------- *)

\* the UI components that share the store instance
Consumers == {"c1", "c2"}

InitConsumers ==
  /\ InitCart /\ InitNoBasket /\ InitNoHook
  /\ pending = <<>>
  /\ issued = [c \in Consumers |-> [id \in SharedIds |-> 0]]

\* the addItem calls requested so far for the product id, by all consumers
RECURSIVE IssuedBy(_, _)
IssuedBy(cs, id) ==
  IF cs = {} THEN 0
  ELSE LET c == CHOOSE k \in cs : TRUE
       IN issued[c][id] + IssuedBy(cs \ {c}, id)

\* a user action in consumer c: its handler, which calls addItem(product),
\* is queued on the single execution thread
Click ==
  \E c \in Consumers, product \in SharedProduct :
    /\ IssuedBy(Consumers, product._id) < MaxQty
    /\ pending' = Append(pending, [consumer |-> c, product |-> product])
    /\ issued' = [issued EXCEPT ![c][product._id] = @ + 1]
    /\ UNCHANGED cartVars

\* a handler whose update is computed from the state it saw before the
\* previous mutation, not from the state handed to the updater
RunAddItemStale ==
  /\ pending # <<>>
  /\ Mutate("addItem", <<Head(pending).product>>,
            addItem(before, Head(pending).product))
  /\ pending' = Tail(pending)
  /\ UNCHANGED issued

\* the oldest queued handler runs to completion: addItem's updater is
\* applied to the current state by set()
RunAddItem ==
  /\ pending # <<>>
  /\ Mutate("addItem", <<Head(pending).product>>,
            addItem(items, Head(pending).product))
  /\ pending' = Tail(pending)
  /\ UNCHANGED issued

NextConsumers ==
  \/ Click /\ UNCHANGED <<basketVars, hookVars>>
  \/ RunAddItem /\ UNCHANGED <<basketVars, hookVars>>

SpecConsumers == InitConsumers /\ [][NextConsumers]_vars

(* ---------------------------------------------------------------------- *)
(* The payment webhook: POST of app/(store)/webhook/route.ts               *)
(* ---------------------------------------------------------------------- *)

\* largest number of console.log lines followed
MaxLog == 2

\* a header or environment value: <<>> when absent (null or undefined),
\* <<s>> when it is the string s
Absent == <<>>
Text(t) == <<t>>

\* !v of JavaScript on such a value: absent or the empty string
Not(v) == v = Absent \/ v[1] = ""

\* the values a request's stripe-signature header and the environment's
\* STRIPE_WEBHOOK_SECRET take, and the bodies posted
Signatures ==
  {Absent, Text(""), Text("t=1,v1=good"), Text("t=1,v1=forged"), Text("junk")}
Secrets == {Absent, Text(""), Text("whsec_test")}
Bodies ==
  {"", "{}", "{\"type\":\"checkout.session.completed\"}",
   "{\"type\":\"payment_intent.succeeded\"}"}

\* NextResponse.json({error}, {status})
Json(error, status) == [returned |-> TRUE, error |-> error, status |-> status]

\* the handler without the test of the secret
webhookPOSTNoSecretTest(sig, webhookSecret) ==
  IF Not(sig) THEN Json("No signature", 400) ELSE NoResponse

\* what POST returns for a signature header and a configured secret
webhookPOST(sig, webhookSecret) ==
  IF Not(sig)
    THEN Json("No signature", 400)
    ELSE IF Not(webhookSecret)
      THEN Json("Stripe webhook secret is not set", 400)
      ELSE NoResponse

\* the deployment starts with some STRIPE_WEBHOOK_SECRET, or none
InitWebhook ==
  /\ InitCart /\ InitNoBasket /\ InitNoClicks
  /\ secret \in Secrets
  /\ request = NoRequest
  /\ response = NoResponse
  /\ log = <<>>
  /\ verified = {}
  /\ events = <<>>

\* one request: the body and the header are read, the two tests run, and
\* the handler returns; console.log runs only for a missing secret
POST ==
  \E body \in Bodies, sig \in Signatures :
    /\ (~Not(sig) /\ Not(secret)) => Len(log) < MaxLog
    /\ request' = [received |-> TRUE, body |-> body, sig |-> sig]
    /\ response' = webhookPOST(sig, secret)
    /\ log' = IF ~Not(sig) /\ Not(secret)
                THEN Append(log, "Stripe webhook secret is not set.")
                ELSE log
    /\ UNCHANGED <<secret, verified, events>>

NextWebhook == POST /\ UNCHANGED <<cartVars, basketVars, clickVars>>

SpecWebhook == InitWebhook /\ [][NextWebhook]_vars

(* ---------------------------------------------------------------------- *)
(* Vocabulary of the properties                                            *)
(* ---------------------------------------------------------------------- *)

\* the indices of the entries of its that carry the identifier id
Holding(its, id) == {i \in 1..Len(its) : its[i].product._id = id}

\* its without its i-th entry
Without(its, i) == SubSeq(its, 1, i - 1) \o SubSeq(its, i + 1, Len(its))

\* what one entry contributes to the total: price * quantity for a numeric
\* price, nothing for a null or missing one
Contribution(item) ==
  IF item.product.price.tag = "number"
    THEN item.product.price.val * item.quantity
    ELSE 0

\* the sum of the contributions of the entries at the indices S
RECURSIVE SumOver(_, _)
SumOver(its, S) ==
  IF S = {} THEN 0
  ELSE LET i == CHOOSE k \in S : TRUE
       IN Contribution(its[i]) + SumOver(its, S \ {i})

(* ---------------------------------------------------------------------- *)
(* Properties                                                              *)
(* ---------------------------------------------------------------------- *)

\* C1: in every state reached by addItem, removeItem, clearCart and restart
\* no two entries of items share the same product._id.
C1_UniqueIds ==
  \A i, j \in 1..Len(items) :
    i # j => items[i].product._id # items[j].product._id

\* a full cart to which a product it already holds has just been added
C1_Witness ==
  /\ last.op = "addItem"
  /\ Holding(before, last.args[1]._id) # {}
  /\ Len(items) = Cardinality(Ids)

\* C2: every entry of items has an integer quantity of at least 1; an entry
\* whose quantity would drop to zero is removed, never kept with quantity 0.
C2_QuantityAtLeastOne ==
  \A i \in 1..Len(items) :
    items[i].quantity \in Nat /\ items[i].quantity >= 1

\* the last unit of an entry has just been removed from a cart of several
C2_Witness ==
  /\ last.op = "removeItem"
  /\ \E i \in Holding(before, last.args[1]) : before[i].quantity = 1
  /\ Len(before) >= 2

\* C3: addItem(P) for a product whose _id is not in the cart yields the
\* previous sequence unchanged followed by one new last entry
\* {product: P, quantity: 1}, and getItemCount(P._id) is then 1.
C3_AddNewAppends ==
  (last.op = "addItem" /\ Holding(before, last.args[1]._id) = {}) =>
    /\ Len(items) = Len(before) + 1
    /\ SubSeq(items, 1, Len(before)) = before
    /\ items[Len(items)] = [product |-> last.args[1], quantity |-> 1]
    /\ getItemCount(items, last.args[1]._id) = 1

\* a product not in the cart has just been added to a cart that held others
C3_Witness ==
  /\ last.op = "addItem"
  /\ Holding(before, last.args[1]._id) = {}
  /\ Len(before) >= 2

\* C4: addItem(P) for a product whose _id is in the cart with quantity n
\* makes that entry's quantity n+1, keeps it at the same index, keeps the
\* length of the sequence and leaves every other entry unchanged.
C4_AddExistingIncrements ==
  (last.op = "addItem" /\ Holding(before, last.args[1]._id) # {}) =>
    /\ Len(items) = Len(before)
    /\ \A i \in 1..Len(before) :
         IF before[i].product._id = last.args[1]._id
           THEN /\ items[i].product._id = last.args[1]._id
                /\ items[i].quantity = before[i].quantity + 1
           ELSE items[i] = before[i]
    /\ getItemCount(items, last.args[1]._id)
         = getItemCount(before, last.args[1]._id) + 1

\* the first entry of a cart of several has just been incremented
C4_Witness ==
  /\ last.op = "addItem"
  /\ Len(before) >= 2
  /\ before[1].product._id = last.args[1]._id
  /\ items[1].quantity = 2

\* C5: removeItem(id) on an entry with quantity n > 1 makes that entry's
\* quantity n-1, keeps it at the same index and leaves every other entry
\* unchanged.
C5_RemoveDecrements ==
  (/\ last.op = "removeItem"
   /\ \E i \in Holding(before, last.args[1]) : before[i].quantity > 1) =>
    /\ Len(items) = Len(before)
    /\ \A i \in 1..Len(before) :
         IF before[i].product._id = last.args[1]
           THEN items[i] = [product |-> before[i].product,
                            quantity |-> before[i].quantity - 1]
           ELSE items[i] = before[i]

\* one unit of an entry holding several has just been removed
C5_Witness ==
  /\ last.op = "removeItem"
  /\ Len(before) >= 2
  /\ \E i \in Holding(before, last.args[1]) :
       before[i].quantity > 1 /\ items[i].quantity = before[i].quantity - 1

\* C6: removeItem(id) on an entry with quantity exactly 1 deletes the entry
\* (getItemCount(id) is then 0) while all other entries keep their product,
\* quantity and relative order.
C6_RemoveLastUnitDeletes ==
  \A i \in 1..Len(before) :
    (/\ last.op = "removeItem"
     /\ before[i].product._id = last.args[1]
     /\ before[i].quantity = 1) =>
      /\ items = Without(before, i)
      /\ Holding(items, last.args[1]) = {}
      /\ getItemCount(items, last.args[1]) = 0

\* the middle entry of three, holding one unit, has just been removed
C6_Witness ==
  /\ last.op = "removeItem"
  /\ Len(before) = 3
  /\ before[2].product._id = last.args[1]
  /\ before[2].quantity = 1
  /\ Len(items) = 2

\* C7: removeItem(id) for an id that matches no entry is a no-op: the items
\* sequence after the call is identical to the sequence before it.
C7_RemoveAbsentNoOp ==
  (last.op = "removeItem" /\ Holding(before, last.args[1]) = {}) =>
    items = before

\* an id that is not in a non-empty cart has just been removed
C7_Witness ==
  /\ last.op = "removeItem"
  /\ Holding(before, last.args[1]) = {}
  /\ Len(before) >= 1

\* C8: clearCart() leaves items empty: getGroupedItems() then returns the
\* empty sequence, getTotalPrice() returns 0 and getItemCount(id) returns 0
\* for every id.
C8_ClearCartEmpties ==
  last.op = "clearCart" =>
    /\ items = <<>>
    /\ getGroupedItems(items) = <<>>
    /\ getTotalPrice(items) = 0
    /\ \A id \in Ids : getItemCount(items, id) = 0

\* a cart of several entries with a positive total has just been cleared
C8_Witness ==
  /\ last.op = "clearCart"
  /\ Len(before) >= 2
  /\ getTotalPrice(before) > 0

\* C9: getTotalPrice() returns exactly the sum over all entries of
\* price * quantity, an entry with a null or missing price contributing 0.
C9_TotalPriceIsSum ==
  /\ getTotalPrice(items) = SumOver(items, 1..Len(items))
  /\ last.op = "getTotalPrice" => ret = SumOver(items, 1..Len(items))

\* the total was just asked of a cart with a null price, a missing price and
\* a priced entry holding several units
C9_Witness ==
  /\ last.op = "getTotalPrice"
  /\ \E i \in 1..Len(items) : items[i].product.price = Null
  /\ \E i \in 1..Len(items) : items[i].product.price = Undefined
  /\ \E i \in 1..Len(items) :
       items[i].product.price.tag = "number" /\ items[i].quantity > 1
  /\ ret > 0

\* C10: getItemCount(productId) returns the quantity of the entry whose
\* product._id equals productId, and 0 when there is no such entry.
C10_ItemCountIsQuantity ==
  /\ \A id \in Ids :
       /\ \A i \in Holding(items, id) : getItemCount(items, id) = items[i].quantity
       /\ Holding(items, id) = {} => getItemCount(items, id) = 0
  /\ last.op = "getItemCount" =>
       /\ \A i \in Holding(items, last.args[1]) : ret = items[i].quantity
       /\ Holding(items, last.args[1]) = {} => ret = 0

\* the count was just asked of a later entry holding several units
C10_Witness ==
  /\ last.op = "getItemCount"
  /\ \E i \in Holding(items, last.args[1]) : i >= 2 /\ items[i].quantity >= 2
  /\ ret >= 2

\* the names of the store's queries and of its mutations
QueryOps == {"getTotalPrice", "getItemCount", "getGroupedItems"}
MutationOps == {"addItem", "removeItem", "clearCart"}

\* C11: getTotalPrice, getItemCount and getGroupedItems leave the items
\* sequence and the persisted record unchanged; two calls of
\* getGroupedItems() with no mutation in between return equal sequences,
\* each equal to the current items.
C11_QueriesChangeNothing ==
  [][/\ last'.op \in QueryOps => (items' = items /\ storage' = storage)
     /\ last'.op = "getGroupedItems" => ret' = items'
     /\ Len(grouped') = 2 =>
          (grouped'[1] = grouped'[2] /\ grouped'[2] = items')]_vars

\* getGroupedItems() has been called twice on a cart of several entries,
\* with no mutation in between
C11_Witness ==
  /\ last.op = "getGroupedItems"
  /\ Len(grouped) = 2
  /\ Len(items) >= 2

\* C12: after every completed mutation, including one that leaves items
\* unchanged, the record under the storage key holds an items sequence equal
\* to the in-memory items.
C12_PersistedAfterMutation ==
  last.op \in MutationOps =>
    /\ storage[CartName].present
    /\ hydrate(storage[CartName]) = items
    /\ Len(storage[CartName].state.items) = Len(items)
    /\ \A i \in 1..Len(items) :
         /\ storage[CartName].state.items[i].product._id = items[i].product._id
         /\ storage[CartName].state.items[i].quantity = items[i].quantity

\* a removeItem that changed nothing has completed on a non-empty cart
C12_Witness ==
  /\ last.op = "removeItem"
  /\ items = before
  /\ Len(items) >= 1
  /\ storage[CartName].present

\* C13: a restart (a new store instance initialised from the same storage
\* key) yields a getGroupedItems() sequence equal to the sequence before the
\* restart: same products, same quantities, same order.
C13_RestartRestores ==
  last.op = "restart" =>
    /\ items = before
    /\ getGroupedItems(items) = before

\* a cart holding a missing price, a null price and an amount was restarted
C13_Witness ==
  /\ last.op = "restart"
  /\ Len(items) = 3
  /\ \E i \in 1..Len(before) : before[i].product.price = Undefined
  /\ \E i \in 1..Len(before) : before[i].product.price = Null
  /\ \E i \in 1..Len(before) : before[i].quantity = 2

\* C15: from an empty cart, addItem({a, 10}), addItem({b, 5}),
\* addItem({a, 10}) leave items equal to [a with quantity 2, b with
\* quantity 1] in that order, getTotalPrice() 25 and getItemCount("a") 2.
C15_EndToEnd ==
  scenario = 3 =>
    /\ items = << CartItem([_id |-> "a", price |-> Num(10)], 2),
                  CartItem([_id |-> "b", price |-> Num(5)], 1) >>
    /\ getTotalPrice(items) = 25
    /\ getItemCount(items, "a") = 2
    /\ last.op = "getTotalPrice" => ret = 25
    /\ (last.op = "getItemCount" /\ last.args[1] = "a") => ret = 2

\* the scenario has run to its end and the total has been asked
C15_Witness ==
  /\ scenario = 3
  /\ last.op = "getTotalPrice"

\* C18: addItem(P) immediately followed by removeItem(P._id) restores
\* exactly the items sequence that held before the addItem, whether or not
\* P was in the cart.
C18_AddThenRemoveRestores ==
  pair.tag = "undone" => items = pair.start

\* a product already in a cart of several was added, then removed again
C18_Witness ==
  /\ pair.tag = "undone"
  /\ Len(pair.start) >= 2
  /\ Holding(pair.start, pair.product._id) # {}

\* C19: addItem(P) on a cart that already holds an entry with P._id changes
\* only that entry's quantity: the entry keeps the product snapshot stored
\* when it was first added, and getTotalPrice() afterwards uses the stored
\* price for all units of that entry.
C19_AddKeepsSnapshot ==
  \A i \in 1..Len(before) :
    (last.op = "addItem" /\ before[i].product._id = last.args[1]._id) =>
      /\ Len(items) = Len(before)
      /\ items[i].product = before[i].product
      /\ items[i].quantity = before[i].quantity + 1
      /\ \A j \in 1..Len(before) : j # i => items[j] = before[j]
      /\ getTotalPrice(items)
           = getTotalPrice(before) + Coalesce(before[i].product.price, 0)

\* a product was added again at another price than its stored snapshot
C19_Witness ==
  /\ last.op = "addItem"
  /\ \E i \in Holding(before, last.args[1]._id) :
       /\ before[i].product.price = Num(5)
       /\ last.args[1].price = Num(10)
       /\ items[i].quantity = 2

\* C16: run side by side from empty on the same sequence of operations
\* (clearBasket for clearCart), the basket store and the cart store have
\* equal items after every step and every query returns the same result.
C16_BasketMatchesCart ==
  /\ bItems = items
  /\ last.op \in QueryOps => bRet = ret
  /\ basketGetTotalPrice(bItems) = getTotalPrice(items)
  /\ basketGetGroupedItems(bItems) = getGroupedItems(items)
  /\ \A id \in Ids : basketGetItemCount(bItems, id) = getItemCount(items, id)

\* both stores have just removed the last unit of one of three entries
C16_Witness ==
  /\ last.op = "removeItem"
  /\ Len(before) = 3
  /\ Len(items) = 2
  /\ Len(bItems) = 2

\* the names of the basket store's operations, and of the cart's, as steps
BasketOps ==
  {"basket.addItem", "basket.removeItem", "basket.clearBasket",
   "basket.getTotalPrice", "basket.getItemCount", "basket.getGroupedItems",
   "basket.restart"}
CartOps == MutationOps \cup QueryOps \cup {"restart"}

\* C20: the stores persist under different storage keys, so no operation or
\* restart of one store changes the items or the persisted record of the
\* other.
C20_StoresIndependent ==
  [][/\ last'.op \in BasketOps =>
          (items' = items /\ storage'[CartName] = storage[CartName])
     /\ last'.op \in CartOps =>
          (bItems' = bItems /\ storage'[BasketName] = storage[BasketName])
     /\ CartName # BasketName]_vars

\* the basket has just been changed while the cart holds other items, each
\* store's record holding its own items
C20_Witness ==
  /\ last.op = "basket.removeItem"
  /\ Len(items) = 2
  /\ Len(bItems) = 1
  /\ hydrate(storage[CartName]) = items
  /\ hydrate(storage[BasketName]) = bItems
  /\ before # bItems

\* C17: POST returns an error response with status 400 whenever the
\* stripe-signature header is missing or STRIPE_WEBHOOK_SECRET is not
\* configured, and in no case verifies a signature or handles an event.
C17_WebhookRejects ==
  /\ (request.received /\ (request.sig = Absent \/ secret = Absent)) =>
       (response.returned /\ response.status = 400)
  /\ (request.received /\ (Not(request.sig) \/ Not(secret))) =>
       (response.returned /\ response.status = 400)
  /\ verified = {}
  /\ events = <<>>

\* a signed request has been answered while no secret is configured
C17_Witness ==
  /\ request.received
  /\ request.sig = Text("t=1,v1=good")
  /\ secret = Absent
  /\ response.returned
  /\ Len(log) >= 1

\* the queued addItem calls for the product id
Queued(id) == {i \in 1..Len(pending) : pending[i].product._id = id}

\* C14: mutations requested by several consumers of the same store instance
\* are applied one after another in every interleaving and none is lost:
\* after k addItem(P) calls issued by any mix of consumers (and no
\* removeItem or clearCart) getItemCount(P._id) equals k.
C14_NoLostUpdate ==
  \A id \in SharedIds :
    /\ getItemCount(items, id)
         = IssuedBy(Consumers, id) - Cardinality(Queued(id))
    /\ pending = <<>> => getItemCount(items, id) = IssuedBy(Consumers, id)
    /\ last.op = "addItem" => hydrate(storage[CartName]) = items

\* both consumers have added the same product, other calls in between, and
\* every call has run
C14_Witness ==
  /\ pending = <<>>
  /\ issued["c1"]["a"] = 1
  /\ issued["c2"]["a"] = 1
  /\ issued["c1"]["b"] + issued["c2"]["b"] >= 1
  /\ getItemCount(items, "a") = 2

====
